---------------------------- MODULE Spec2Model ----------------------------
(***************************************************************************)
(* Job manager (jobs/jobsv1/manager.go) and queue server (queue package)   *)
(* of go-centrifuge, as state machines.                                    *)
(*                                                                         *)
(* Strings are sequences of tokens, so that fmt.Sprintf is concatenation   *)
(* and "contains" is a real test.  The nil error is the empty sequence.    *)
(***************************************************************************)
EXTENDS Integers, Sequences, FiniteSets, TLC

(* ------------------------------ bounds --------------------------------- *)
\* ExecuteWithinJob invocations, one in flight at a time
MaxCalls == 2
\* log entries one job record may hold (guards the appends)
MaxLogs == 2
\* UpdateTaskStatus / UpdateJobWithValue invocations beside an ExecuteWithinJob
MaxUpdates == 1
\* UpdateTaskStatus invocations of one caller, one after the other
MaxSeqUpdates == 3
\* EnqueueJob callers
MaxEnqueues == 2
\* RegisterTaskType invocations
MaxTaskTypes == 2

\* every call creates at most one job
JobIDs == 1..MaxCalls
Enqueuers == 1..MaxEnqueues

(* ---------------------------- program values --------------------------- *)
\* jobs.NilJobID(): the zero id, never the id of a stored job
NilJobID == 0
\* make(chan error, 1)
DoneCap == 1
managerLogPrefix == <<"manager">>

Pending == "pending"
Success == "success"
Failed == "failed"

Descs == {"anchor document"}
\* the errors a work function may report; Nil is the nil error
Nil == <<>>
Errs == {<<"rpc timeout">>}
RepoErr == <<"repository error">>
NotFound == <<"job not found">>
TaskNames == {"t1"}
Keys == {"k1"}
NoJob == [id |-> NilJobID]
NoValue == "unset"

\* strings.Contains on token sequences
Contains(s, sub) ==
    \E i \in 0..(Len(s) - Len(sub)) : SubSeq(s, i + 1, i + Len(sub)) = sub

\* fmt.Sprintf("%s[%s]", managerLogPrefix, desc)
ActionOf(desc) == managerLogPrefix \o <<"[", desc, "]">>
\* fmt.Sprintf("%s %s", action, e.Error())
WorkFailure(desc, e) == ActionOf(desc) \o <<" ">> \o e
\* the message logged when the context closes
ContextClosedMsg(job) ==
    <<"Job ", ToString(job.id), " with description ", job.desc,
      " is stopped because of context close">>
\* errors.AppendError(e, err): both errors, e first
AppendError(e, err) == e \o err

\* jobs.NewLog(action, message)
NewLog(action, message) == [task |-> action, msg |-> message]
\* jobs.NewJob(accountID, desc), with the fresh id it draws
NewJob(id, desc) ==
    [id |-> id, desc |-> desc, status |-> Pending,
     taskStatus |-> [t \in TaskNames |-> NoValue],
     values |-> [k \in Keys |-> NoValue],
     logs |-> <<>>]

VARIABLES
    store,      \* the repository: job id -> record, NoJob where none is stored
    nextID,     \* the next id NewJob draws
    calls,      \* ExecuteWithinJob invocations so far
    call,       \* the ExecuteWithinJob call in flight: the finalize goroutine's locals
    work,       \* its work goroutine and the value it sends on err
    ctxDone,    \* its ctx.Done() is closed
    done,       \* its done channel's buffer
    received,   \* what a reader of its done channel has received
    notified,   \* the messages it handed to notifier.Send
    upd,        \* the UpdateTaskStatus / UpdateJobWithValue caller
    updCount,   \* updates started so far
    wait,       \* the WaitForJob caller: position and result
    lock,       \* Server.lock: the writer holding it and the readers' count
    queue,      \* Server.queue: "nil", or the celery client
    taskTypes,  \* Server.taskTypes
    start,      \* where Server.Start stands
    qctxDone,   \* the context given to Start is done
    startupErr, \* the reader of startupErr and what it got
    atStart,    \* the task types that were added when Start took the lock
    registered, \* celery client: the names registered with it
    workers,    \* celery client: the workers are running
    broker,     \* celery client: the messages in the in-memory broker
    backend,    \* celery client: task id -> result in the in-memory backend
    enq         \* per EnqueueJob caller: position, task name and what it got

mvars == <<store, nextID, calls, call, work, ctxDone, done, received, notified,
           upd, updCount, wait>>

qvars == <<lock, queue, taskTypes, start, qctxDone, startupErr, atStart,
           registered, workers, broker, backend, enq>>

vars == <<mvars, qvars>>

(* ------------------------------ repository ----------------------------- *)
\* repo.Get(accountID, id): the stored record, or NoJob with an error
repoGet(s, id) == IF id \in JobIDs THEN s[id] ELSE NoJob
\* repo.Save(job): an upsert of the whole record
repoSave(s, job) == [s EXCEPT ![job.id] = job]
\* a variant that writes the record although the Save reports an error
saveJobAnyway(s, job, fails) == repoSave(s, job)

\* manager.saveJob
saveJob(s, job, fails) == IF fails THEN s ELSE repoSave(s, job)
\* manager.GetJob
GetJob(s, id, fails) == IF fails THEN NoJob ELSE repoGet(s, id)

IdleCall ==
    [pc |-> "idle", existingJobID |-> NilJobID, desc |-> "", jobID |-> NilJobID,
     jobDesc |-> "", e |-> Nil, tempJob |-> NoJob, mJob |-> NoJob,
     doneErr |-> Nil]

IdleWork == [pc |-> "none", e |-> Nil]

MInit ==
    /\ store = [j \in JobIDs |-> NoJob]
    /\ nextID = 1
    /\ calls = 0
    /\ call = IdleCall
    /\ work = IdleWork
    /\ ctxDone = FALSE
    /\ done = <<>>
    /\ received = <<>>
    /\ notified = <<>>
    /\ upd = [pc |-> "idle", tx |-> NoJob, res |-> "none"]
    /\ updCount = 0
    /\ wait = [pc |-> "idle", id |-> NilJobID, err |-> Nil]

(* --------------------------- ExecuteWithinJob -------------------------- *)
\* a variant that starts the work although the new record could not be saved
ExecuteWithinJobStartsAnyway(existingJobID, desc, getFails, saveFails) ==
    /\ call.pc \in {"idle", "end", "returned error"}
    /\ calls < MaxCalls
    /\ existingJobID # nextID
    /\ calls' = calls + 1
    /\ ctxDone' = FALSE
    /\ done' = <<>>
    /\ received' = <<>>
    /\ notified' = <<>>
    /\ LET got == GetJob(store, existingJobID, getFails)
           found == got # NoJob
           job == IF found THEN got ELSE NewJob(nextID, desc)
       IN  /\ store' = IF found THEN store ELSE saveJob(store, job, saveFails)
           /\ nextID' = IF found \/ saveFails THEN nextID ELSE nextID + 1
           /\ call' = [IdleCall EXCEPT
                          !.pc = IF ~found /\ saveFails THEN "returned error" ELSE "select",
                          !.existingJobID = existingJobID,
                          !.desc = desc,
                          !.jobID = IF ~found /\ saveFails THEN NilJobID ELSE job.id,
                          !.jobDesc = job.desc]
           /\ work' = [pc |-> "running", e |-> Nil]
    /\ UNCHANGED <<upd, updCount, wait, qvars>>

\* the synchronous part: look the job up, create it when the lookup fails,
\* then spawn the finalize goroutine and the work goroutine.  A call starts
\* once the finalize goroutine of the call before it has ended.
ExecuteWithinJob(existingJobID, desc, getFails, saveFails) ==
    /\ call.pc \in {"idle", "end", "returned error"}
    /\ calls < MaxCalls
    \* the id NewJob draws is fresh: never the one the caller passed
    /\ existingJobID # nextID
    /\ calls' = calls + 1
    /\ ctxDone' = FALSE
    /\ done' = <<>>
    /\ received' = <<>>
    /\ notified' = <<>>
    /\ LET got == GetJob(store, existingJobID, getFails)
           found == got # NoJob
           job == IF found THEN got ELSE NewJob(nextID, desc)
       IN  IF ~found /\ saveFails
                 THEN /\ call' = [IdleCall EXCEPT !.pc = "returned error",
                                                  !.existingJobID = existingJobID]
                      /\ work' = IdleWork
                      /\ UNCHANGED <<store, nextID, qvars>>
                 ELSE /\ store' = IF found THEN store ELSE saveJob(store, job, FALSE)
                      /\ nextID' = IF found THEN nextID ELSE nextID + 1
                      /\ call' = [IdleCall EXCEPT !.pc = "select",
                                                  !.existingJobID = existingJobID,
                                                  !.desc = desc,
                                                  !.jobID = job.id,
                                                  !.jobDesc = job.desc]
                      /\ work' = [pc |-> "running", e |-> Nil]
    /\ UNCHANGED <<upd, updCount, wait, qvars>>

\* the work function reaches its send on the unbuffered err channel
WorkReport(e) ==
    /\ work.pc = "running"
    /\ work' = [pc |-> "sending", e |-> e]
    /\ UNCHANGED <<store, nextID, calls, call, ctxDone, done, received, notified,
                   upd, updCount, wait, qvars>>

\* the caller cancels the context it passed
CancelCtx ==
    /\ call.pc \notin {"idle", "returned error"}
    /\ ~ctxDone
    /\ ctxDone' = TRUE
    /\ UNCHANGED <<store, nextID, calls, call, work, done, received, notified,
                   upd, updCount, wait, qvars>>

\* select: case e := <-err (the rendezvous completes the work goroutine's send)
SelectWork ==
    /\ call.pc = "select"
    /\ work.pc = "sending"
    /\ call' = [call EXCEPT !.pc = "work get", !.e = work.e]
    /\ work' = [work EXCEPT !.pc = "done"]
    /\ UNCHANGED <<store, nextID, calls, ctxDone, done, received, notified,
                   upd, updCount, wait, qvars>>

\* select: case <-ctx.Done()
SelectCancel ==
    /\ call.pc = "select"
    /\ ctxDone
    /\ call' = [call EXCEPT !.pc = "cancel get"]
    /\ UNCHANGED <<store, nextID, calls, work, ctxDone, done, received, notified,
                   upd, updCount, wait, qvars>>

\* work branch: tempJob, err := s.repo.Get(accountID, job.ID)
WorkGet(fails) ==
    /\ call.pc = "work get"
    /\ LET got == GetJob(store, call.jobID, fails)
       IN  call' = IF got = NoJob
                      THEN [call EXCEPT !.pc = "send",
                                        !.doneErr = AppendError(call.e, RepoErr)]
                      ELSE [call EXCEPT !.pc = "work save", !.tempJob = got]
    /\ UNCHANGED <<store, nextID, calls, work, ctxDone, done, received, notified,
                   upd, updCount, wait, qvars>>

\* a variant that logs the error with NewLog's arguments swapped
WorkOutcomeSwapped(job, e, existingJobID, desc) ==
    IF e = Nil /\ existingJobID = NilJobID
       THEN [job EXCEPT !.status = Success]
       ELSE IF e # Nil
               THEN [job EXCEPT !.logs = Append(@, NewLog(e, ActionOf(desc))),
                                !.status = Failed]
               ELSE job

\* work branch: what the finalize step writes into the reloaded snapshot
WorkOutcome(job, e, existingJobID, desc) ==
    IF e = Nil /\ existingJobID = NilJobID
       THEN [job EXCEPT !.status = Success]
       ELSE IF e # Nil
               THEN [job EXCEPT !.logs = Append(@, NewLog(ActionOf(desc), e)),
                                !.status = Failed]
               ELSE job

\* a variant that forgets the error of the save
WorkDoneErrIgnoresSave(e, desc, saveFails) ==
    IF e # Nil THEN WorkFailure(desc, e) ELSE Nil

\* work branch: the error prepared for the done channel
WorkDoneErr(e, desc, saveFails) ==
    IF saveFails THEN AppendError(e, RepoErr)
    ELSE IF e # Nil THEN WorkFailure(desc, e)
    ELSE Nil

\* work branch: update the snapshot, es := s.saveJob(tempJob), mJob = tempJob
WorkSave(fails) ==
    /\ call.pc = "work save"
    /\ call.e = Nil \/ Len(call.tempJob.logs) < MaxLogs
    /\ LET job == WorkOutcome(call.tempJob, call.e,
                              call.existingJobID, call.desc)
       IN  /\ store' = saveJob(store, job, fails)
           /\ call' = [call EXCEPT !.pc = "send",
                                   !.tempJob = NoJob,
                                   !.mJob = job,
                                   !.doneErr = WorkDoneErr(call.e, call.desc, fails)]
    /\ UNCHANGED <<nextID, calls, work, ctxDone, done, received, notified,
                   upd, updCount, wait, qvars>>

\* cancel branch: tempJob, err := s.repo.Get(accountID, job.ID)
CancelGet(fails) ==
    /\ call.pc = "cancel get"
    /\ LET got == GetJob(store, call.jobID, fails)
       IN  call' = IF got = NoJob
                      THEN [call EXCEPT !.pc = "send", !.doneErr = RepoErr]
                      ELSE [call EXCEPT !.pc = "cancel save", !.tempJob = got]
    /\ UNCHANGED <<store, nextID, calls, work, ctxDone, done, received, notified,
                   upd, updCount, wait, qvars>>

\* cancel branch: what the finalize step writes into the reloaded snapshot
CancelOutcome(job, id, desc) ==
    [job EXCEPT !.logs = Append(@, NewLog(<<"context closed">>,
        ContextClosedMsg([id |-> id, desc |-> desc])))]

\* cancel branch: append the log, e := s.saveJob(tempJob), mJob = tempJob
CancelSave(fails) ==
    /\ call.pc = "cancel save"
    /\ Len(call.tempJob.logs) < MaxLogs
    /\ LET job == CancelOutcome(call.tempJob, call.jobID, call.jobDesc)
       IN  /\ store' = saveJob(store, job, fails)
           /\ call' = [call EXCEPT !.pc = "send",
                                   !.tempJob = NoJob,
                                   !.mJob = job,
                                   !.doneErr = IF fails THEN RepoErr ELSE Nil]
    /\ UNCHANGED <<nextID, calls, work, ctxDone, done, received, notified,
                   upd, updCount, wait, qvars>>

\* a variant whose goroutine comes by the send a second time
SendDoneTwice ==
    /\ call.pc = "send"
    /\ done' = IF Len(done) < DoneCap
                  THEN Append(done, call.doneErr)
                  ELSE done
    /\ call' = IF Len(done) + Len(received) = 0 THEN call
                ELSE [call EXCEPT !.pc = "notify"]
    /\ UNCHANGED <<store, nextID, calls, work, ctxDone, received, notified,
                   upd, updCount, wait, qvars>>

\* the non blocking send: select { case done <- doneErr: default: log }
SendDone ==
    /\ call.pc = "send"
    /\ done' = IF Len(done) < DoneCap
                  THEN Append(done, call.doneErr)
                  ELSE done
    /\ call' = [call EXCEPT !.pc = "notify"]
    /\ UNCHANGED <<store, nextID, calls, work, ctxDone, received, notified,
                   upd, updCount, wait, qvars>>

\* notification.Message built from mJob
NotificationMsg(mJob) ==
    [status |-> mJob.status,
     message |-> IF Len(mJob.logs) > 0 THEN mJob.logs[Len(mJob.logs)].msg ELSE <<>>]

\* a variant that marks the job Failed when the Sender returns an error
NotifyFailsTheJob(sendFails) ==
    /\ call.pc = "notify"
    /\ notified' =
          IF call.mJob # NoJob /\ call.existingJobID = NilJobID
             THEN Append(notified, [msg |-> NotificationMsg(call.mJob),
                                    ok |-> ~sendFails])
             ELSE notified
    /\ store' = IF sendFails /\ call.mJob # NoJob
                   THEN repoSave(store, [call.mJob EXCEPT !.status = Failed])
                   ELSE store
    /\ call' = [IdleCall EXCEPT !.pc = "end",
                                !.existingJobID = call.existingJobID,
                                !.jobID = call.jobID]
    /\ UNCHANGED <<nextID, calls, work, ctxDone, done, received,
                   upd, updCount, wait, qvars>>

\* the webhook: sent when mJob != nil and existingJobID is the nil id
Notify(sendFails) ==
    /\ call.pc = "notify"
    /\ notified' =
          IF call.mJob # NoJob /\ call.existingJobID = NilJobID
             THEN Append(notified, [msg |-> NotificationMsg(call.mJob),
                                    ok |-> ~sendFails])
             ELSE notified
    /\ call' = [IdleCall EXCEPT !.pc = "end",
                                !.existingJobID = call.existingJobID,
                                !.jobID = call.jobID]
    /\ UNCHANGED <<store, nextID, calls, work, ctxDone, done, received,
                   upd, updCount, wait, qvars>>

\* a caller of ExecuteWithinJob reads its done channel
DoneRecv ==
    /\ done # <<>>
    /\ received' = Append(received, Head(done))
    /\ done' = Tail(done)
    /\ UNCHANGED <<store, nextID, calls, call, work, ctxDone, notified,
                   upd, updCount, wait, qvars>>


(* ------------------- UpdateTaskStatus / UpdateJobWithValue ------------- *)
Values == {"v1"}
Messages == {<<"m1">>}

\* a variant that puts the new log entry in front of the others
UpdateTaskStatusPrepend(id, status, taskName, message, fails) ==
    /\ upd.pc = "idle"
    /\ updCount' = updCount + 1
    /\ LET tx == GetJob(store, id, fails)
       IN  IF tx = NoJob
              THEN upd' = [pc |-> "idle", tx |-> NoJob, res |-> "error"]
              ELSE /\ Len(tx.logs) < MaxLogs
                   /\ upd' = [pc |-> "save", res |-> "none",
                              tx |-> [tx EXCEPT !.taskStatus[taskName] = status,
                                                !.logs = <<NewLog(<<taskName>>, message)>> \o @]]
    /\ UNCHANGED <<store, nextID, calls, call, work, ctxDone, done, received,
                   notified, wait, qvars>>

\* UpdateTaskStatus up to its save: tx, err := s.GetJob(...); set the task's
\* status and append the log in the loaded copy
UpdateTaskStatus(id, status, taskName, message, fails) ==
    /\ upd.pc = "idle"
    /\ updCount' = updCount + 1
    /\ LET tx == GetJob(store, id, fails)
       IN  IF tx = NoJob
              THEN upd' = [pc |-> "idle", tx |-> NoJob, res |-> "error"]
              ELSE /\ Len(tx.logs) < MaxLogs
                   /\ upd' = [pc |-> "save", res |-> "none",
                              tx |-> [tx EXCEPT !.taskStatus[taskName] = status,
                                                !.logs = Append(@, NewLog(<<taskName>>, message))]]
    /\ UNCHANGED <<store, nextID, calls, call, work, ctxDone, done, received,
                   notified, wait, qvars>>

\* UpdateJobWithValue up to its save
UpdateJobWithValue(id, key, value, fails) ==
    /\ upd.pc = "idle"
    /\ updCount' = updCount + 1
    /\ LET tx == GetJob(store, id, fails)
       IN  IF tx = NoJob
              THEN upd' = [pc |-> "idle", tx |-> NoJob, res |-> "error"]
              ELSE upd' = [pc |-> "save", res |-> "none",
                           tx |-> [tx EXCEPT !.values[key] = value]]
    /\ UNCHANGED <<store, nextID, calls, call, work, ctxDone, done, received,
                   notified, wait, qvars>>

\* return s.saveJob(tx), of either update
UpdateSave(fails) ==
    /\ upd.pc = "save"
    /\ store' = saveJob(store, upd.tx, fails)
    /\ upd' = [pc |-> "idle", tx |-> NoJob, res |-> IF fails THEN "error" ELSE "ok"]
    /\ UNCHANGED <<nextID, calls, call, work, ctxDone, done, received, notified,
                   updCount, wait, qvars>>

(* ----------------------- GetJobStatus / WaitForJob --------------------- *)
\* manager.GetJobStatus of a loaded job
GetJobStatus(job) ==
    [status |-> job.status,
     message |-> IF Len(job.logs) > 0 THEN job.logs[Len(job.logs)].msg ELSE <<>>]

\* errors.New("job failed: %v", resp.Message)
JobFailedErr(message) == <<"job failed: ">> \o message

\* a caller enters WaitForJob.  The callers only read the repository, so
\* they do not affect one another and one caller, calling again after it
\* returned, stands for any number of them.
WaitForJob(id) ==
    /\ wait.pc \in {"idle", "returned"}
    /\ wait' = [pc |-> "polling", id |-> id, err |-> Nil]
    /\ UNCHANGED <<store, nextID, calls, call, work, ctxDone, done, received, notified,
                   upd, updCount, qvars>>

\* a variant whose switch returns nil for every status but Failed
WaitVerdictDefaultNil(job) ==
    IF job = NoJob THEN "error"
    ELSE IF GetJobStatus(job).status = Failed THEN "failed"
    ELSE "success"

\* what one round of the loop does with the job it got: "error" returns the
\* Get error, "failed" and "success" return, anything else sleeps and polls again
WaitVerdict(job) ==
    IF job = NoJob THEN "error"
    ELSE IF GetJobStatus(job).status = Failed THEN "failed"
    ELSE IF GetJobStatus(job).status = Success THEN "success"
    ELSE "continue"

\* one round of WaitForJob's loop
WaitPoll(fails) ==
    /\ wait.pc = "polling"
    /\ LET job == GetJob(store, wait.id, fails)
           v == WaitVerdict(job)
       IN  wait' =
              CASE v = "error"    -> [wait EXCEPT !.pc = "returned",
                                        !.err = IF fails THEN RepoErr ELSE NotFound]
                [] v = "failed"   -> [wait EXCEPT !.pc = "returned",
                                        !.err = JobFailedErr(GetJobStatus(job).message)]
                [] v = "success"  -> [wait EXCEPT !.pc = "returned", !.err = Nil]
                [] OTHER          -> wait
    /\ UNCHANGED <<store, nextID, calls, call, work, ctxDone, done, received, notified,
                   upd, updCount, qvars>>

(* ------------------------------ queue server --------------------------- *)
QTaskNames == {"ping", "pong"}
QueueNotInitialised == <<"queue hasn't been initialised">>
NoResult == "none"
\* no TaskResult; a TaskResult is the one-element sequence of its task id
NoHandle == <<>>
IdleEnq == [pc |-> "idle", name |-> "", result |-> NoHandle, err |-> Nil, got |-> NoResult]

QInit ==
    /\ lock = [writer |-> FALSE, readers |-> 0]
    /\ queue = "nil"
    /\ taskTypes = <<>>
    /\ start = "idle"
    /\ qctxDone = FALSE
    /\ startupErr = "none"
    /\ atStart = {}
    /\ registered = {}
    /\ workers = FALSE
    /\ broker = <<>>
    /\ backend = [p \in Enqueuers |-> NoResult]
    /\ enq = [p \in Enqueuers |-> IdleEnq]

Range(seq) == {seq[i] : i \in 1..Len(seq)}
LockFree == ~lock.writer /\ lock.readers = 0

\* RegisterTaskType: append under the write lock
RegisterTaskType(name) ==
    /\ LockFree
    /\ Len(taskTypes) < MaxTaskTypes
    /\ taskTypes' = Append(taskTypes, name)
    /\ UNCHANGED <<lock, queue, start, qctxDone, startupErr, atStart, registered,
                   workers, broker, backend, enq, mvars>>

\* Start: qs.lock.Lock()
StartLock ==
    /\ start = "idle"
    /\ LockFree
    /\ lock' = [lock EXCEPT !.writer = TRUE]
    /\ start' = "construct"
    /\ atStart' = Range(taskTypes)
    /\ UNCHANGED <<queue, taskTypes, qctxDone, startupErr, registered, workers,
                   broker, backend, enq, mvars>>

\* Start: qs.queue, err = gocelery.NewCeleryClient(...)
StartConstruct(ok) ==
    /\ start = "construct"
    /\ queue' = IF ok THEN "client" ELSE "nil"
    /\ start' = IF ok THEN "register" ELSE "signal"
    /\ UNCHANGED <<lock, taskTypes, qctxDone, startupErr, atStart, registered,
                   workers, broker, backend, enq, mvars>>

\* the owner of startupErr starts to receive from it
StartupErrListen ==
    /\ startupErr = "none"
    /\ startupErr' = "listening"
    /\ UNCHANGED <<lock, queue, taskTypes, start, qctxDone, atStart, registered,
                   workers, broker, backend, enq, mvars>>

\* Start: startupErr <- err, which waits for the receiver
StartSignal ==
    /\ start = "signal"
    /\ startupErr = "listening"
    /\ startupErr' = "got error"
    /\ start' = "register"
    /\ UNCHANGED <<lock, queue, taskTypes, qctxDone, atStart, registered,
                   workers, broker, backend, enq, mvars>>

\* a variant of the loop that registers nothing with the client
StartRegisterNothing ==
    /\ start = "register"
    /\ start' = "start workers"
    /\ UNCHANGED <<registered, lock, queue, taskTypes, qctxDone, startupErr,
                   atStart, workers, broker, backend, enq, mvars>>

\* Start: for _, task := range qs.taskTypes { qs.queue.Register(...) };
\* with a nil client the first Register dereferences nil
StartRegister ==
    /\ start = "register"
    /\ IF queue = "nil" /\ taskTypes # <<>>
          THEN start' = "panic" /\ UNCHANGED registered
          ELSE start' = "start workers" /\ registered' = Range(taskTypes)
    /\ UNCHANGED <<lock, queue, taskTypes, qctxDone, startupErr, atStart,
                   workers, broker, backend, enq, mvars>>

\* Start: qs.queue.StartWorker(), a nil dereference with a nil client
StartWorker ==
    /\ start = "start workers"
    /\ IF queue = "nil"
          THEN start' = "panic" /\ UNCHANGED workers
          ELSE start' = "unlock" /\ workers' = TRUE
    /\ UNCHANGED <<lock, queue, taskTypes, qctxDone, startupErr, atStart,
                   registered, broker, backend, enq, mvars>>

\* Start: qs.lock.Unlock(), then it waits for <-ctx.Done()
StartUnlock ==
    /\ start = "unlock"
    /\ lock' = [lock EXCEPT !.writer = FALSE]
    /\ start' = "serving"
    /\ UNCHANGED <<queue, taskTypes, qctxDone, startupErr, atStart, registered,
                   workers, broker, backend, enq, mvars>>

\* the context given to Start is cancelled
QueueCtxCancel ==
    /\ ~qctxDone
    /\ qctxDone' = TRUE
    /\ UNCHANGED <<lock, queue, taskTypes, start, startupErr, atStart,
                   registered, workers, broker, backend, enq, mvars>>

\* Start: <-ctx.Done() returns, qs.lock.Lock()
StopLock ==
    /\ start = "serving"
    /\ qctxDone
    /\ LockFree
    /\ lock' = [lock EXCEPT !.writer = TRUE]
    /\ start' = "stop workers"
    /\ UNCHANGED <<queue, taskTypes, qctxDone, startupErr, atStart, registered,
                   workers, broker, backend, enq, mvars>>

\* Start: qs.queue.StopWorker(); qs.lock.Unlock()
StopWorker ==
    /\ start = "stop workers"
    /\ workers' = FALSE
    /\ lock' = [lock EXCEPT !.writer = FALSE]
    /\ start' = "stopped"
    /\ UNCHANGED <<queue, taskTypes, qctxDone, startupErr, atStart, registered,
                   broker, backend, enq, mvars>>

\* EnqueueJob: qs.lock.RLock()
EnqueueJobLock(p, taskName) ==
    /\ enq[p].pc = "idle"
    /\ \A o \in Enqueuers : o < p => enq[o].pc # "idle"
    /\ ~lock.writer
    /\ start # "panic"
    /\ lock' = [lock EXCEPT !.readers = @ + 1]
    /\ enq' = [enq EXCEPT ![p] = [IdleEnq EXCEPT !.pc = "locked", !.name = taskName]]
    /\ UNCHANGED <<queue, taskTypes, start, qctxDone, startupErr, atStart,
                   registered, workers, broker, backend, mvars>>

\* a variant of enqueueJob without the nil check
enqueueJobUnchecked(q, b, p, name) ==
    [result |-> <<p>>, err |-> Nil, broker |-> Append(b, [id |-> p, name |-> name])]

\* Server.enqueueJob: the nil check, then qs.queue.Delay(task), which puts
\* the task on the broker and returns the handle to its result
enqueueJob(q, b, p, name) ==
    IF q = "nil"
       THEN [result |-> NoHandle, err |-> QueueNotInitialised, broker |-> b]
       ELSE [result |-> <<p>>, err |-> Nil, broker |-> Append(b, [id |-> p, name |-> name])]

\* EnqueueJob: the settings, enqueueJob, and the deferred RUnlock
EnqueueJob(p) ==
    /\ enq[p].pc = "locked"
    /\ LET r == enqueueJob(queue, broker, p, enq[p].name)
       IN  /\ broker' = r.broker
           /\ enq' = [enq EXCEPT ![p].pc = "returned",
                                 ![p].result = r.result,
                                 ![p].err = r.err]
    /\ lock' = [lock EXCEPT !.readers = @ - 1]
    /\ UNCHANGED <<queue, taskTypes, start, qctxDone, startupErr, atStart,
                   registered, workers, backend, mvars>>

\* a worker takes a task off the broker and runs it when its name is
\* registered, leaving the result in the backend
WorkerRun ==
    /\ workers
    /\ broker # <<>>
    /\ broker' = Tail(broker)
    /\ backend' = IF Head(broker).name \in registered
                     THEN [backend EXCEPT ![Head(broker).id] = Head(broker).name]
                     ELSE backend
    /\ UNCHANGED <<lock, queue, taskTypes, start, qctxDone, startupErr, atStart,
                   registered, workers, enq, mvars>>

\* TaskResult.Get(timeout): the result when the backend has it in time,
\* otherwise the timeout's error
TaskResultGet(p, intime) ==
    /\ enq[p].pc = "returned"
    /\ enq[p].result # NoHandle
    /\ enq[p].got = NoResult
    /\ enq' = [enq EXCEPT ![p].got =
                  IF intime /\ backend[enq[p].result[1]] # NoResult
                     THEN backend[enq[p].result[1]]
                     ELSE "timeout"]
    /\ UNCHANGED <<lock, queue, taskTypes, start, qctxDone, startupErr, atStart,
                   registered, workers, broker, backend, mvars>>

(* ------------------------------ the system ----------------------------- *)
Init == MInit /\ QInit

\* the job manager, with the queue server at rest
Next ==
    \/ \E x \in {NilJobID} \cup JobIDs, d \in Descs, gf, sf \in BOOLEAN :
          ExecuteWithinJob(x, d, gf, sf)
    \/ \E e \in {Nil} \cup Errs : WorkReport(e)
    \/ CancelCtx
    \/ SelectWork
    \/ SelectCancel
    \/ \E f \in BOOLEAN : WorkGet(f)
    \/ \E f \in BOOLEAN : WorkSave(f)
    \/ \E f \in BOOLEAN : CancelGet(f)
    \/ \E f \in BOOLEAN : CancelSave(f)
    \/ SendDone
    \/ \E f \in BOOLEAN : Notify(f)
    \/ DoneRecv
    \/ /\ updCount < MaxUpdates
       /\ \E id \in JobIDs, s \in {Success, Failed}, t \in TaskNames, m \in Messages,
             f \in BOOLEAN : UpdateTaskStatus(id, s, t, m, f)
    \/ /\ updCount < MaxUpdates
       /\ \E id \in JobIDs, k \in Keys, v \in Values, f \in BOOLEAN :
             UpdateJobWithValue(id, k, v, f)
    \/ \E f \in BOOLEAN : UpdateSave(f)
    \/ \E id \in JobIDs : WaitForJob(id)
    \/ \E f \in BOOLEAN : WaitPoll(f)

\* the queue server, with the job manager at rest
QueueNext ==
    \/ \E n \in QTaskNames : RegisterTaskType(n)
    \/ StartLock
    \/ \E ok \in BOOLEAN : StartConstruct(ok)
    \/ StartupErrListen
    \/ StartSignal
    \/ StartRegister
    \/ StartWorker
    \/ StartUnlock
    \/ QueueCtxCancel
    \/ StopLock
    \/ StopWorker
    \/ \E p \in Enqueuers, n \in QTaskNames : EnqueueJobLock(p, n)
    \/ \E p \in Enqueuers : EnqueueJob(p)
    \/ WorkerRun
    \/ \E p \in Enqueuers, t \in BOOLEAN : TaskResultGet(p, t)

\* one caller of UpdateTaskStatus, call after call, on the jobs that
\* ExecuteWithinJob has created; nothing else saves
SeqMessages == {<<"m1">>, <<"m2">>}
UpdateNext ==
    \/ \E d \in Descs, gf, sf \in BOOLEAN : ExecuteWithinJob(NilJobID, d, gf, sf)
    \/ /\ updCount < MaxSeqUpdates
       /\ \E id \in JobIDs, s \in {Success, Failed}, t \in TaskNames, m \in SeqMessages,
             f \in BOOLEAN : UpdateTaskStatus(id, s, t, m, f)
    \/ \E f \in BOOLEAN : UpdateSave(f)

Spec == Init /\ [][Next]_vars

UpdateSpec == Init /\ [][UpdateNext]_vars

QueueSpec == Init /\ [][QueueNext]_vars

\* the workers poll the broker for as long as they run
FairQueueSpec == QueueSpec /\ WF_vars(WorkerRun)


(* ------------------------------- claims -------------------------------- *)
StatusOf(s, j) == IF s[j] = NoJob THEN "none" ELSE s[j].status
LastMsg(job) == IF Len(job.logs) > 0 THEN job.logs[Len(job.logs)].msg ELSE <<>>
\* the finalize goroutine's save step of the work branch, and of the cancel branch
WorkSaveStep == call.pc = "work save" /\ call'.pc = "send"
CancelSaveStep == call.pc = "cancel save" /\ call'.pc = "send"

\* C1 (as claimed): once a job's stored Status is Success, no step stores
\* Pending for it again, whatever UpdateTaskStatus / UpdateJobWithValue calls
\* run beside the finalize step.
C1_SuccessNeverPendingAgain ==
    [][\A j \in JobIDs :
          StatusOf(store, j) = Success => StatusOf(store', j) # Pending]_vars

WaitReturns == wait.pc = "polling" /\ wait'.pc = "returned"

C4_CancelLeavesStoredFields ==
    [][CancelSaveStep /\ call'.doneErr = Nil =>
          LET before == store[call.jobID]
              after == store'[call.jobID]
          IN  /\ after.status = before.status
              /\ after.taskStatus = before.taskStatus
              /\ after.values = before.values
              /\ Len(after.logs) = Len(before.logs) + 1
              /\ SubSeq(after.logs, 1, Len(before.logs)) = before.logs]_vars

\* C5 (as claimed): the work goroutine is never left in its send on the err
\* channel once the finalize goroutine has left the select.
C5_NoSenderLeftBlocked ==
    ~(work.pc = "sending" /\ call.pc # "select")

\* C6: the done channel never holds more than its capacity of one, one call
\* puts at most one value on it whether or not a reader takes it, and the
\* send is never blocked.
C6_DoneAtMostOnce ==
    /\ Len(done) <= DoneCap
    /\ Len(done) + Len(received) <= 1
    /\ call.pc = "send" => ENABLED SendDone
    /\ call.pc \in {"notify", "end"} => Len(done) + Len(received) = 1

\* a late reader took the one value after the goroutine ended under a
\* cancelled context
C6_Witness ==
    /\ call.pc = "end"
    /\ ctxDone
    /\ Len(received) = 1
    /\ done = <<>>

\* C7 (as claimed): a stored Status changes only from Pending, only to
\* Success or Failed, and only in the finalize step of the work branch.
C7_StatusOnlyLeavesPending ==
    [][\A j \in JobIDs :
          StatusOf(store, j) \notin {"none", StatusOf(store', j)} =>
             /\ StatusOf(store, j) = Pending
             /\ StatusOf(store', j) \in {Success, Failed}
             /\ WorkSaveStep]_vars

\* C10 (as claimed): a notification is sent only by a call with the nil
\* existingJobID, at most once, and its Status is Success or Failed.
C10_NotifiesFinalStatus ==
    /\ Len(notified) <= 1
    /\ notified # <<>> =>
          /\ call.existingJobID = NilJobID
          /\ call.pc = "end"
          /\ notified[1].msg.status \in {Success, Failed}

\* the step in which EnqueueJob caller p returns
EnqueueReturns(p) == enq[p].pc = "locked" /\ enq'[p].pc = "returned"

\* C8: EnqueueJob with a nil queue reference returns the "queue hasn't been
\* initialised" error and no TaskResult, and leaves the broker, the backend
\* and the rest of the server as they were.
C8_EnqueueBeforeStart ==
    [][\A p \in Enqueuers : EnqueueReturns(p) /\ queue = "nil" =>
          /\ enq'[p].err = QueueNotInitialised
          /\ enq'[p].result = NoHandle
          /\ UNCHANGED <<queue, taskTypes, registered, workers, broker, backend>>]_vars

\* EnqueueJob returned the error before Start had run
C8_Witness ==
    \E p \in Enqueuers :
        /\ enq[p].pc = "returned"
        /\ enq[p].err = QueueNotInitialised
        /\ start = "idle"
        /\ broker = <<>>

ExecuteStep == calls' # calls
\* the step in which an update does its GetJob, and the one in which it saves
UpdateGetStep == updCount' # updCount
UpdateSaveStep == upd.pc = "save" /\ upd'.pc = "idle"

\* C11 (as claimed): every error of the repository's Get or Save in a
\* synchronous Manager operation is returned by that call, which changes the
\* store no more; in particular an ExecuteWithinJob whose initial lookup
\* finds no record returns an error and leaves the store as it was.
C11_EveryRepoErrorReturned ==
    [][/\ ExecuteStep /\ repoGet(store, call'.existingJobID) = NoJob =>
             call'.pc = "returned error" /\ store' = store
       /\ UpdateGetStep /\ repoGet(store, upd'.tx.id) = NoJob =>
             upd'.res = "error" /\ store' = store
       /\ UpdateSaveStep /\ upd'.res = "error" => store' = store
       /\ WaitReturns /\ repoGet(store, wait.id) = NoJob =>
             wait'.err # Nil /\ store' = store]_vars

\* C11 (amended): UpdateTaskStatus and UpdateJobWithValue return the error of
\* their Get without saving, and the error of their Save with the store left
\* as it was; WaitForJob returns the error of its Get and never writes; an
\* ExecuteWithinJob returns an error only for the Save of the record it
\* creates, with the store unchanged and no goroutine started.  The error of
\* ExecuteWithinJob's initial Get is never returned: the call then saves a
\* new Pending record and goes on with it.
C11_RepoErrorsOfUpdatesAndCreation ==
    [][/\ UpdateGetStep =>
             /\ store' = store
             /\ upd'.pc = "idle" => upd'.res = "error" /\ upd'.tx = NoJob
             /\ upd'.pc = "save" => upd'.res = "none" /\ upd'.tx.id \in JobIDs
       /\ UpdateSaveStep =>
             \/ upd'.res = "ok" /\ store' = repoSave(store, upd.tx)
             \/ upd'.res = "error" /\ store' = store
       /\ wait' # wait => store' = store
       /\ WaitReturns /\ repoGet(store, wait.id) = NoJob =>
             wait'.err \in {RepoErr, NotFound}
       /\ ExecuteStep =>
             \/ /\ call'.pc = "returned error"
                /\ store' = store
                /\ work'.pc = "none"
             \/ /\ call'.pc = "select"
                /\ repoGet(store, call'.existingJobID) = NoJob =>
                      /\ call'.jobID # call'.existingJobID
                      /\ store' = repoSave(store, NewJob(call'.jobID, call'.desc))
                      /\ store' # store]_vars

\* an update, a WaitForJob and an ExecuteWithinJob have each returned a
\* repository error, with a job in the store
C11_Witness ==
    /\ upd.res = "error"
    /\ wait.pc = "returned" /\ wait.err = RepoErr
    /\ call.pc = "returned error"
    /\ store[1] # NoJob

\* C12: the synchronous part of ExecuteWithinJob either reuses the stored
\* record of existingJobID, leaving the store as it was and returning that
\* id; or saves exactly one new record, Pending and with empty Logs, under a
\* fresh id and returns that id; or, when that save fails, returns the nil
\* job id and the error with the store unchanged, and then neither
\* goroutine is started and nothing ever arrives on a done channel.
C12_ReuseOrCreateOrError ==
    /\ [][ExecuteStep =>
             LET x == call'.existingJobID
                 id == call'.jobID
             IN  \/ /\ call'.pc = "select"
                    /\ id = x
                    /\ x \in JobIDs /\ store[x] # NoJob
                    /\ store' = store
                    /\ work'.pc = "running"
                 \/ /\ call'.pc = "select"
                    /\ id # x
                    /\ id \in JobIDs /\ store[id] = NoJob
                    /\ store'[id].status = Pending
                    /\ store'[id].logs = <<>>
                    /\ store'[id].id = id
                    /\ \A j \in JobIDs \ {id} : store'[j] = store[j]
                    /\ work'.pc = "running"
                 \/ /\ call'.pc = "returned error"
                    /\ id = NilJobID
                    /\ store' = store
                    /\ work'.pc = "none"]_vars
    /\ [](call.pc = "returned error" =>
             work.pc = "none" /\ done = <<>> /\ received = <<>> /\ notified = <<>>)

\* the second call could not save its new record; the first call's job is
\* in the store
C12_Witness ==
    /\ calls = 2
    /\ call.pc = "returned error"
    /\ store[1] # NoJob
    /\ store[2] = NoJob
    /\ work.pc = "none"

\* the log entry an UpdateTaskStatus caller is about to save, its own
OwnEntry == upd.tx.logs[Len(upd.tx.logs)]

\* C13: with one caller of UpdateTaskStatus at a time and no other save, each
\* call starts from the stored record and adds the entry {taskName, message}
\* of its arguments at the end; each successful call grows the stored Logs by
\* exactly that entry, after the entries of the calls before it, sets
\* TaskStatus[taskName] to its status and leaves the overall Status, the
\* Values and the other jobs as they were; a failed call stores nothing.
\* So N successful calls in a row grow the Logs by N entries in call order.
C13_SequentialUpdatesAppendInOrder ==
    [][/\ UpdateGetStep /\ upd'.pc = "save" =>
             \E s \in {Success, Failed}, t \in TaskNames, m \in SeqMessages :
                upd'.tx = [store[upd'.tx.id] EXCEPT
                              !.taskStatus[t] = s,
                              !.logs = Append(@, [task |-> <<t>>, msg |-> m])]
       /\ UpdateSaveStep =>
             LET id == upd.tx.id
                 t == OwnEntry.task[1]
             IN  IF upd'.res = "ok"
                    THEN /\ store'[id].logs = Append(store[id].logs, OwnEntry)
                         /\ Len(store'[id].logs) = Len(store[id].logs) + 1
                         /\ store'[id].taskStatus =
                               [store[id].taskStatus EXCEPT ![t] = upd.tx.taskStatus[t]]
                         /\ store'[id].taskStatus[t] \in {Success, Failed}
                         /\ store'[id].status = store[id].status
                         /\ store'[id].values = store[id].values
                         /\ \A j \in JobIDs \ {id} : store'[j] = store[j]
                    ELSE store' = store]_vars

\* two calls in a row, ("t1", "m1") and then ("t1", "m2") with status Failed,
\* have succeeded on the job that ExecuteWithinJob created
C13_Witness ==
    /\ upd.pc = "idle" /\ upd.res = "ok"
    /\ store[1] # NoJob
    /\ store[1].logs = <<[task |-> <<"t1">>, msg |-> <<"m1">>],
                         [task |-> <<"t1">>, msg |-> <<"m2">>]>>
    /\ store[1].taskStatus["t1"] = Failed
    /\ store[1].status = Pending
    /\ store[1].values["k1"] = NoValue

\* a is an initial part of b
IsPrefix(a, b) == Len(a) <= Len(b) /\ SubSeq(b, 1, Len(a)) = a

\* C14 (as claimed): the stored Logs of a job is only ever extended: every
\* step leaves the log sequence stored before it as an initial part of the
\* one stored after it, whatever UpdateTaskStatus, UpdateJobWithValue and
\* finalize steps are interleaved.
C14_LogsOnlyGrow ==
    [][\A j \in JobIDs :
          store[j] # NoJob =>
             store'[j] # NoJob /\ IsPrefix(store[j].logs, store'[j].logs)]_vars

\* the step in which the finalize goroutine builds and sends the notification
NotifyStep == call.pc = "notify" /\ call'.pc = "end"

\* C15: the notification is handed to the Sender only in the finalize
\* goroutine's last step, after the save and after the send on the done
\* channel, and at most once per call; that step leaves the store, the done
\* channel and what its reader received as they were, and apart from the
\* Sender's own result it has the same outcome whether Send succeeds or
\* returns an error.
C15_SendFailureIsLogOnly ==
    /\ [][NotifyStep =>
             /\ store' = store
             /\ done' = done
             /\ received' = received
             /\ Len(done) + Len(received) = 1
             /\ call' = [IdleCall EXCEPT !.pc = "end",
                                         !.existingJobID = call.existingJobID,
                                         !.jobID = call.jobID]
             /\ \/ notified' = notified
                \/ \E b \in BOOLEAN :
                      notified' = Append(notified,
                                         [msg |-> NotificationMsg(call.mJob), ok |-> b])]_vars
    /\ [][notified' # notified => NotifyStep \/ ExecuteStep]_vars
    /\ [](Len(notified) <= 1)

\* the Sender returned an error; the job is stored as Success and the reader
\* of the done channel got nil
C15_Witness ==
    /\ call.pc = "end"
    /\ Len(notified) = 1
    /\ ~notified[1].ok
    /\ received = <<Nil>>
    /\ store[call.jobID].status = Success

\* C16 (as claimed): the finalize step of a call with a non-nil
\* existingJobID whose work reported nil leaves the stored overall Status of
\* its job as it was and adds no entry to the stored Logs, and no
\* UpdateTaskStatus call changes the stored overall Status of a job.
C16_ResumedNilLeavesStatus ==
    [][/\ WorkSaveStep /\ call.existingJobID # NilJobID /\ call.e = Nil =>
             /\ store'[call.jobID].status = store[call.jobID].status
             /\ Len(store'[call.jobID].logs) <= Len(store[call.jobID].logs)
       /\ UpdateSaveStep =>
             \A j \in JobIDs : StatusOf(store', j) = StatusOf(store, j)]_vars

\* the EnqueueJob callers that hold the read lock
ReadLockHolders == {p \in Enqueuers : enq[p].pc = "locked"}

\* C17 (as claimed): EnqueueJob callers may hold the lock together, a Start
\* or RegisterTaskType holding it excludes them, and whoever holds the write
\* lock is on its way to releasing it: Start never panics and never stops
\* for good with the lock held, also when the construction of the client
\* failed, so that no EnqueueJob caller waits on the lock for ever.
C17_EnqueueNeverShutOut ==
    /\ lock.readers = Cardinality(ReadLockHolders)
    /\ lock.writer => lock.readers = 0
    /\ lock.writer <=> start \in {"construct", "signal", "register",
                                  "start workers", "unlock", "stop workers"}
    /\ start # "panic"

\* C18 (as claimed): every Start goes through the same steps: with the write
\* lock held the client is constructed, the task types added so far are
\* registered with it and then the workers are started; the lock is
\* released; Start waits for ctx; the workers are stopped only after ctx is
\* done, with the write lock held, which is then released; and a failed
\* construction is signalled on startupErr.
C18_StartLifecycle ==
    [][/\ start = "construct" /\ start' # start => lock.writer
       /\ start = "signal" /\ start' # start =>
             startupErr' = "got error" /\ queue = "nil" /\ lock.writer
       /\ start = "register" /\ start' # start =>
             /\ lock.writer
             /\ registered' = Range(taskTypes)
             /\ atStart \subseteq registered'
             /\ start' = "start workers"
       /\ start = "start workers" /\ start' # start =>
             /\ lock.writer
             /\ workers'
             /\ start' = "unlock"
       /\ ~workers /\ workers' => atStart \subseteq registered
       /\ start = "unlock" /\ start' # start =>
             ~lock'.writer /\ start' = "serving"
       /\ start = "serving" /\ start' # start => qctxDone /\ lock'.writer
       /\ workers /\ ~workers' =>
             qctxDone /\ lock.writer /\ ~lock'.writer]_vars

\* the step in which the finalize goroutine does its send on the done channel
SendStep == call.pc = "send" /\ call'.pc = "notify"
\* the work function has sent, or is sending, nil on the err channel
WorkReportedNil == work.pc \in {"sending", "done"} /\ work.e = Nil

\* C19 (as claimed): when nil is put on the done channel of a call with the
\* nil existingJobID whose work reported nil, the record that the finalize
\* step has saved has Status Success.
C19_NilOnDoneAfterSuccessSaved ==
    [][SendStep /\ call.doneErr = Nil /\ call.existingJobID = NilJobID
          /\ WorkReportedNil =>
             call.mJob # NoJob /\ call.mJob.status = Success]_vars

\* C19 (amended): the finalize goroutine saves, then sends on the done
\* channel, then notifies.  A nil is sent only after a save that succeeded.
\* When the goroutine took the work's nil (the work branch) in a call with
\* the nil existingJobID, that save stored the record with Status Success.
\* When the cancel branch won the select, also against a work that was
\* sending nil, the nil follows a save of the record with its Status left as
\* it was, Pending, and the cancellation's log entry.
C19_SaveThenSendThenNotify ==
    [][/\ WorkSaveStep /\ call.existingJobID = NilJobID /\ call'.doneErr = Nil =>
             /\ call.e = Nil
             /\ store'[call.jobID] = call'.mJob
             /\ store'[call.jobID].status = Success
       /\ CancelSaveStep /\ call'.doneErr = Nil =>
             /\ store'[call.jobID] = call'.mJob
             /\ store'[call.jobID].status = call.tempJob.status
       /\ SendStep =>
             /\ done' = Append(done, call.doneErr)
             /\ store' = store
             /\ notified' = notified
             /\ call'.mJob = call.mJob
             /\ call.doneErr = Nil => call.mJob # NoJob
             /\ call.doneErr = Nil /\ call.existingJobID = NilJobID =>
                   IF work.pc = "done"
                      THEN call.mJob.status = Success
                      ELSE /\ ctxDone
                           /\ call.mJob.status = Pending
                           /\ call.mJob.logs[Len(call.mJob.logs)].task =
                                 <<"context closed">>
       /\ notified' # notified /\ ~ExecuteStep =>
             /\ call.pc = "notify"
             /\ Len(done) + Len(received) = 1]_vars

\* nil is on the done channel of a new job's call whose work's nil was
\* taken; the Success record is saved and the notification not yet sent
C19_Witness ==
    /\ call.pc = "notify"
    /\ done = <<Nil>>
    /\ call.existingJobID = NilJobID
    /\ work.pc = "done" /\ work.e = Nil
    /\ call.mJob.status = Success
    /\ store[call.jobID] = call.mJob
    /\ notified = <<>>

\* C20 (as claimed): the notification of a call reports the record that its
\* finalize step persisted: right after the finalize step's save, also a
\* failed one, the stored record has the Status and the last log Message
\* that the notification is built from, and the message handed to the
\* Sender carries exactly these.
C20_NotifiesWhatWasSaved ==
    [][/\ (WorkSaveStep \/ CancelSaveStep) /\ call.existingJobID = NilJobID =>
             GetJobStatus(store'[call.jobID]) = NotificationMsg(call'.mJob)
       /\ NotifyStep /\ notified' # notified =>
             notified'[Len(notified')].msg = NotificationMsg(call.mJob)]_vars

=============================================================================
